---- MODULE Spec2Model ----
(***************************************************************************)
(* The BERT backbone of keras_nlp/models/bert/bert_models.py as a state    *)
(* machine: one model instance, the weight-file cache of                   *)
(* keras.utils.get_file, and the outcome of the last call made on the      *)
(* class or the instance.                                                  *)
(*                                                                         *)
(* A tensor is represented by its shape (a sequence of dimensions), a      *)
(* layer's weights by their shape signature and by the identity of the     *)
(* content they were last written from (0: the initializer, k > 0: the     *)
(* weight file with id k).  A Python exception is represented by its class *)
(* name, "None" when the call returned.                                    *)
(*                                                                         *)
(* The packaging script pip_build.py is a second machine on the same       *)
(* module: the disk it works on, the working directory, site-packages and  *)
(* the outcome of the last run (SpecBuild).                                *)
(***************************************************************************)
EXTENDS Integers, Sequences, FiniteSets, TLC

----------------------------------------------------------------------------
(* Bounds of the model. *)

\* num_layers ranges over 1..MaxLayers
MaxLayers == 2
\* the batch dimension of an input ranges over 1..MaxBatch
MaxBatch == 2
\* the seq_len dimension of an input ranges over 1..MaxSeqLen
MaxSeqLen == 3
\* the packaging script is run at most MaxRuns times
MaxRuns == 2

----------------------------------------------------------------------------
(* Program constants. *)

cls_token_index == 0
default_max_sequence_length == 512
default_num_segments == 2
default_dropout == "0.1"

\* A dimension keras.Input leaves open (None).
AnyDim == -1

\* No tensor: the shape of a value that could not be computed.
NoShape == <<>>

NoModel == [exists |-> FALSE]
NoFile == [id |-> 0, weights |-> <<>>]
FetchFail == [id |-> -1, weights |-> <<>>]
NoHash == -1
NoValue == "None"

----------------------------------------------------------------------------
(* Bert.__init__: argument binding and the functional graph. *)

InitParams ==
    {"vocabulary_size", "num_layers", "num_heads", "hidden_dim",
     "intermediate_dim", "dropout", "max_sequence_length", "num_segments",
     "name", "trainable"}

InitRequired ==
    {"vocabulary_size", "num_layers", "num_heads", "hidden_dim",
     "intermediate_dim"}

InitDefaults ==
    [dropout |-> default_dropout,
     max_sequence_length |-> default_max_sequence_length,
     num_segments |-> default_num_segments,
     name |-> NoValue,
     trainable |-> TRUE]

\* Python binds the keyword arguments of cls(**config) to the signature:
\* an unknown keyword or a missing required one is a TypeError.
BindError(kw) ==
    IF ~(DOMAIN kw \subseteq InitParams) THEN "TypeError"
    ELSE IF ~(InitRequired \subseteq DOMAIN kw) THEN "TypeError"
    ELSE "None"

BindArgs(kw) ==
    [k \in InitParams |-> IF k \in DOMAIN kw THEN kw[k] ELSE InitDefaults[k]]

\* Inputs declared with the sequence dimension fixed to the maximum length.
InputShape_fixed(a) == <<AnyDim, a.max_sequence_length>>

\* The three keras.Input placeholders: shape=(None,), batch dimension open.
InputShape(a) == <<AnyDim, AnyDim>>

Node(name, op, inputs, mask, weights) ==
    [name |-> name, op |-> op, inputs |-> inputs, mask |-> mask,
     weights |-> weights, index |-> 0]

\* Nodes 1..9: inputs, the three embeddings, their sum, layer norm, dropout.
EmbeddingNodes(a) ==
    << Node("token_ids", "Input", <<>>, 0, <<>>),
       Node("segment_ids", "Input", <<>>, 0, <<>>),
       Node("padding_mask", "Input", <<>>, 0, <<>>),
       Node("token_embedding", "Embedding", <<1>>, 0,
            <<a.vocabulary_size, a.hidden_dim>>),
       Node("position_embedding", "PositionEmbedding", <<4>>, 0,
            <<a.max_sequence_length, a.hidden_dim>>),
       Node("segment_embedding", "Embedding", <<2>>, 0,
            <<a.num_segments, a.hidden_dim>>),
       Node("add", "Add", <<4, 5, 6>>, 0, <<>>),
       Node("embeddings_layer_norm", "LayerNormalization", <<7>>, 0,
            <<a.hidden_dim>>),
       Node("embeddings_dropout", "Dropout", <<8>>, 0, <<>>) >>

\* name=f"transformer_layer_{i}"
LayerName(i) == "transformer_layer_" \o ToString(i)

\* An encoder block applied to the embedding instead of the current x.
EncoderNode_flat(a, i, x) ==
    Node(LayerName(i), "TransformerEncoder", <<9>>, 3,
         <<a.hidden_dim, a.num_heads, a.intermediate_dim>>)

\* One pass of the loop `for i in range(num_layers)`: a new TransformerEncoder
\* applied to the current x (the last node) with the padding_mask input.
EncoderNode(a, i, x) ==
    Node(LayerName(i), "TransformerEncoder", <<x>>, 3,
         <<a.hidden_dim, a.num_heads, a.intermediate_dim>>)

RECURSIVE EncoderLoop(_, _, _)
EncoderLoop(a, nodes, i) ==
    IF i >= a.num_layers THEN nodes
    ELSE EncoderLoop(a, Append(nodes, EncoderNode(a, i, Len(nodes))), i + 1)

\* A pooled dense layer of intermediate_dim units.
PoolNodes_wide(a, x) ==
    << [Node("cls_slice", "Slice", <<x>>, 0, <<>>)
          EXCEPT !.index = cls_token_index],
       Node("pooled_dense", "Dense", <<x + 1>>, 0,
            <<a.hidden_dim, a.intermediate_dim>>) >>

\* x[:, cls_token_index, :] and the pooled dense layer on top of it.
PoolNodes(a, x) ==
    << [Node("cls_slice", "Slice", <<x>>, 0, <<>>)
          EXCEPT !.index = cls_token_index],
       Node("pooled_dense", "Dense", <<x + 1>>, 0,
            <<a.hidden_dim, a.hidden_dim>>) >>

BuildGraph(a) ==
    LET body == EncoderLoop(a, EmbeddingNodes(a), 0)
        x == Len(body)
    IN [nodes |-> body \o PoolNodes(a, x),
        sequence_output |-> x,
        pooled_output |-> x + 2,
        input_shape |-> InputShape(a)]

\* The layers of the graph that own weights, in construction order.
RECURSIVE WeightedLayers(_, _)
WeightedLayers(nodes, i) ==
    IF i > Len(nodes) THEN <<>>
    ELSE IF nodes[i].op \in {"Embedding", "PositionEmbedding",
                             "LayerNormalization", "TransformerEncoder",
                             "Dense"}
         THEN <<i>> \o WeightedLayers(nodes, i + 1)
         ELSE WeightedLayers(nodes, i + 1)

\* The weights of a graph's layers as the initializers leave them.
InitialParams(g) == [i \in 1..Len(WeightedLayers(g.nodes, 1)) |-> 0]

\* The model after super().__init__ and the assignments to self.  The graph
\* handed to the functional Model constructor never changes afterwards and
\* is not kept in the state: Graph(m) rebuilds it from the attributes.
NewModel(a) ==
    [exists |-> TRUE,
     params |-> InitialParams(BuildGraph(a)),
     vocabulary_size |-> a.vocabulary_size,
     hidden_dim |-> a.hidden_dim,
     intermediate_dim |-> a.intermediate_dim,
     num_layers |-> a.num_layers,
     num_heads |-> a.num_heads,
     max_sequence_length |-> a.max_sequence_length,
     num_segments |-> a.num_segments,
     dropout |-> a.dropout,
     cls_token_index |-> cls_token_index]

\* A constructor whose vocabulary_size has a default.
Bert_init_optional_vocab(kw) ==
    IF ~(DOMAIN kw \subseteq InitParams) THEN
        [err |-> "TypeError", model |-> NoModel]
    ELSE
        [err |-> "None",
         model |-> NewModel(BindArgs(
             [k \in DOMAIN kw \cup InitRequired |->
                IF k \in DOMAIN kw THEN kw[k] ELSE 30522]))]

\* Bert.__init__: the arguments are bound, the graph is built, the
\* attributes are set.
Bert_init(kw) ==
    IF BindError(kw) # "None"
    THEN [err |-> BindError(kw), model |-> NoModel]
    ELSE [err |-> "None", model |-> NewModel(BindArgs(kw))]

Graph(m) == BuildGraph(m)

----------------------------------------------------------------------------
(* Calling the model: the shape each node of the graph produces. *)

\* A placeholder dimension admits every size; a fixed one only its own.
DimOk(spec, d) == spec = AnyDim \/ spec = d

AcceptsInput(g, shape) ==
    /\ Len(shape) = Len(g.input_shape)
    /\ \A k \in 1..Len(shape) : DimOk(g.input_shape[k], shape[k])

\* keras.layers.Embedding: [batch, seq] -> [batch, seq, output_dim].
EmbeddingOut(node, x) ==
    IF x = NoShape THEN NoShape ELSE x \o <<node.weights[2]>>

\* PositionEmbedding: the first seq_len rows of the [sequence_length, dim]
\* table, broadcast over the batch; no such rows when seq_len is larger.
PositionEmbeddingOut(node, x) ==
    IF x = NoShape THEN NoShape
    ELSE IF x[2] > node.weights[1] THEN NoShape
    ELSE <<x[1], x[2], node.weights[2]>>

\* keras.layers.Add: all operands of one shape.
AddOut(xs) ==
    IF \A k \in 1..Len(xs) : xs[k] # NoShape /\ xs[k] = xs[1]
    THEN xs[1] ELSE NoShape

\* TransformerEncoder: [batch, seq, dim] with a [batch, seq] mask to the
\* same shape.
TransformerEncoderOut(node, x, mask) ==
    IF x = NoShape \/ mask = NoShape THEN NoShape
    ELSE IF Len(x) # 3 \/ mask # <<x[1], x[2]>> THEN NoShape
    ELSE IF x[3] # node.weights[1] THEN NoShape
    ELSE x

\* x[:, index, :] of a rank-3 tensor.
SliceOut(node, x) ==
    IF x = NoShape THEN NoShape
    ELSE IF Len(x) # 3 \/ node.index >= x[2] THEN NoShape
    ELSE <<x[1], x[3]>>

\* keras.layers.Dense(units): the last dimension becomes units.
DenseOut(node, x) ==
    IF x = NoShape THEN NoShape
    ELSE IF x[Len(x)] # node.weights[1] THEN NoShape
    ELSE SubSeq(x, 1, Len(x) - 1) \o <<node.weights[2]>>

RECURSIVE ShapeAt(_, _, _)
ShapeAt(g, i, batch) ==
    LET node == g.nodes[i]
        in(k) == ShapeAt(g, node.inputs[k], batch)
    IN CASE node.op = "Input" ->
              IF AcceptsInput(g, batch) THEN batch ELSE NoShape
         [] node.op = "Embedding" -> EmbeddingOut(node, in(1))
         [] node.op = "PositionEmbedding" -> PositionEmbeddingOut(node, in(1))
         [] node.op = "Add" -> AddOut([k \in 1..Len(node.inputs) |-> in(k)])
         [] node.op = "LayerNormalization" -> in(1)
         [] node.op = "Dropout" -> in(1)
         [] node.op = "TransformerEncoder" ->
              TransformerEncoderOut(node, in(1), ShapeAt(g, node.mask, batch))
         [] node.op = "Slice" -> SliceOut(node, in(1))
         [] node.op = "Dense" -> DenseOut(node, in(1))

\* The outcome of a call from the shapes of the two outputs.
Outputs(accepted, seq, pooled) ==
    IF ~accepted
    THEN [err |-> "ValueError", sequence_output |-> NoShape,
          pooled_output |-> NoShape]
    ELSE IF seq = NoShape \/ pooled = NoShape
    THEN [err |-> "ShapeError", sequence_output |-> NoShape,
          pooled_output |-> NoShape]
    ELSE [err |-> "None", sequence_output |-> seq, pooled_output |-> pooled]

CallGraph(g, batch) ==
    Outputs(AcceptsInput(g, batch),
            ShapeAt(g, g.sequence_output, batch),
            ShapeAt(g, g.pooled_output, batch))

\* model(input_batch): the two outputs, or the error of the first layer that
\* cannot be applied.
CallModel(m, batch) == CallGraph(Graph(m), batch)

----------------------------------------------------------------------------
(* bert_presets: the preset registry. *)

Config(layers, heads, hidden, intermediate, maxlen) ==
    [vocabulary_size |-> 7, num_layers |-> layers, num_heads |-> heads,
     hidden_dim |-> hidden, intermediate_dim |-> intermediate,
     dropout |-> default_dropout, max_sequence_length |-> maxlen,
     num_segments |-> 2]

\* bert_tiny and bert_small have published weights, bert_untrained only a
\* config.
backbone_configs ==
    [bert_tiny |-> Config(1, 1, 2, 6, 2),
     bert_small |-> Config(2, 2, 4, 8, 4),
     bert_untrained |-> Config(1, 2, 4, 8, 4)]

backbone_weight_urls ==
    [bert_tiny |-> "https://storage/bert_tiny/model.h5",
     bert_small |-> "https://storage/bert_small/model.h5"]

\* The content of a weight file: one shape signature per weighted layer, in
\* layer order, and the identity of the values.
PickWeights(nodes, layers) ==
    [k \in 1..Len(layers) |-> nodes[layers[k]].weights]

GraphWeights(g) == PickWeights(g.nodes, WeightedLayers(g.nodes, 1))

WeightsOf(m) == GraphWeights(Graph(m))

WeightFile(id, kw) == [id |-> id, weights |-> WeightsOf(Bert_init(kw).model)]

\* The content hash of a file.
Hash(file) == (file.id * 31 + Len(file.weights)) % 251

\* The files that were published for the presets.
Published ==
    [bert_tiny |-> WeightFile(1, backbone_configs.bert_tiny),
     bert_small |-> WeightFile(2, backbone_configs.bert_small)]

backbone_weight_hashes ==
    [bert_tiny |-> Hash(Published.bert_tiny),
     bert_small |-> Hash(Published.bert_small)]

\* A file with the layout of bert_tiny and other values: what a corrupted or
\* replaced download holds.
Tampered == WeightFile(3, backbone_configs.bert_tiny)

Files == {Published.bert_tiny, Published.bert_small, Tampered}

\* Python's d[key]: KeyError for a key the dict does not hold.
HasKey(d, key) == key \in DOMAIN d

----------------------------------------------------------------------------
(* keras.utils.get_file and keras.Model.load_weights, as Bert.load_weights  *)
(* calls them. *)

\* get_file(fname, origin, cache_subdir, file_hash): the cached file is used
\* when it is there and (a hash given) has that hash; otherwise the origin is
\* fetched into the cache, a failed fetch removes the file and raises, and a
\* fetched file whose hash differs raises ValueError and stays in the cache.
get_file(cache, subdir, served, file_hash) ==
    LET cached == cache[subdir]
        checked == cached # NoFile /\ file_hash # NoHash
        download == cached = NoFile \/ (checked /\ Hash(cached) # file_hash)
        pre == IF checked THEN <<"verify">> ELSE <<>>
    IN IF ~download
       THEN [err |-> "None", file |-> cached, cache |-> cache, events |-> pre]
       ELSE IF served = FetchFail
       THEN [err |-> "Exception", file |-> NoFile,
             cache |-> [cache EXCEPT ![subdir] = NoFile],
             events |-> pre \o <<"fetch">>]
       ELSE IF file_hash # NoHash /\ Hash(served) # file_hash
       THEN [err |-> "ValueError", file |-> NoFile,
             cache |-> [cache EXCEPT ![subdir] = served],
             events |-> pre \o <<"fetch", "verify">>]
       ELSE [err |-> "None", file |-> served,
             cache |-> [cache EXCEPT ![subdir] = served],
             events |-> pre \o <<"fetch">> \o
                        (IF file_hash # NoHash THEN <<"verify">> ELSE <<>>)]

\* The first layer whose stored weights do not have the layer's shape, 0 when
\* every layer matches.
RECURSIVE FirstMismatch(_, _, _)
FirstMismatch(have, want, k) ==
    IF k > Len(want) THEN 0
    ELSE IF have[k] # want[k] THEN k
    ELSE FirstMismatch(have, want, k + 1)

\* The first upto variables are assigned from the file, in layer order.
AssignPrefix(m, file, upto, err) ==
    [err |-> err,
     params |-> [k \in 1..Len(m.params) |->
                   IF k <= upto THEN file.id ELSE m.params[k]],
     events |-> <<"open">> \o [k \in 1..upto |-> "assign"]]

AssignUntil(m, file, bad) ==
    IF bad = 0 THEN AssignPrefix(m, file, Len(m.params), "None")
    ELSE AssignPrefix(m, file, bad - 1, "ValueError")

\* keras.Model.load_weights(filepath): the layer count is compared first; the
\* values are then assigned variable by variable, and an assignment of the
\* wrong shape raises ValueError after the earlier ones have been made.
KerasLoadWeights(m, file) ==
    IF file = NoFile
    THEN [err |-> "OSError", params |-> m.params, events |-> <<"open">>]
    ELSE IF Len(file.weights) # Len(m.params)
    THEN [err |-> "ValueError", params |-> m.params, events |-> <<"open">>]
    ELSE AssignUntil(m, file, FirstMismatch(file.weights, WeightsOf(m), 1))

----------------------------------------------------------------------------
(* Bert.get_config, from_config, from_preset, load_weights. *)

\* An argument is a Python str or another object.
Str(v) == [str |-> TRUE, val |-> v]
Obj(v) == [str |-> FALSE, val |-> v]

get_config(m) ==
    [vocabulary_size |-> m.vocabulary_size,
     hidden_dim |-> m.hidden_dim,
     intermediate_dim |-> m.intermediate_dim,
     num_layers |-> m.num_layers,
     num_heads |-> m.num_heads,
     max_sequence_length |-> m.max_sequence_length,
     num_segments |-> m.num_segments,
     dropout |-> m.dropout,
     cls_token_index |-> m.cls_token_index]

\* cls(**config)
Construct_from(kw, events) ==
    [err |-> Bert_init(kw).err, model |-> Bert_init(kw).model,
     events |-> events \o <<"construct">>]

\* A from_config that falls back to the first preset for an unknown name.
from_config_fallback(config) ==
    IF ~config.str THEN Construct_from(config.val, <<>>)
    ELSE IF HasKey(backbone_configs, config.val)
    THEN Construct_from(backbone_configs[config.val], <<"resolve_config">>)
    ELSE Construct_from(backbone_configs.bert_tiny, <<"resolve_config">>)

from_config(config) ==
    IF ~config.str THEN Construct_from(config.val, <<>>)
    ELSE IF ~HasKey(backbone_configs, config.val)
    THEN [err |-> "KeyError", model |-> NoModel,
          events |-> <<"resolve_config">>]
    ELSE Construct_from(backbone_configs[config.val], <<"resolve_config">>)

\* A load_weights that hands get_file no hash.
file_hash_omitted(weights) == NoHash

\* file_hash=backbone_weight_hashes[weights]
file_hash(weights) == backbone_weight_hashes[weights]

\* super().load_weights(weights) on the file get_file returned, or the
\* error get_file raised.
LoadFetched(m, f) ==
    IF f.err # "None"
    THEN [err |-> f.err, params |-> m.params, cache |-> f.cache,
          events |-> <<"resolve_weights">> \o f.events]
    ELSE [KerasLoadWeights(m, f.file) EXCEPT
            !.events = <<"resolve_weights">> \o f.events \o @]
         @@ [cache |-> f.cache]

load_weights(m, cache, weights, served) ==
    IF ~weights.str
    THEN KerasLoadWeights(m, weights.val) @@ [cache |-> cache]
    ELSE IF ~HasKey(backbone_weight_urls, weights.val)
    THEN [err |-> "KeyError", params |-> m.params, cache |-> cache,
          events |-> <<"resolve_weights">>]
    ELSE IF ~HasKey(backbone_weight_hashes, weights.val)
    THEN [err |-> "KeyError", params |-> m.params, cache |-> cache,
          events |-> <<"resolve_weights">>]
    ELSE LoadFetched(m, get_file(cache, weights.val, served,
                                 file_hash(weights.val)))

\* A from_preset that returns the constructed model whether or not the
\* weights were loaded.
LoadedModel_unchecked(c, l) ==
    [err |-> "None", model |-> [c.model EXCEPT !.params = l.params],
     cache |-> l.cache, events |-> c.events \o l.events]

\* from_preset's `return model`, reached when load_weights returned.
LoadedModel(c, l) ==
    IF l.err # "None"
    THEN [err |-> l.err, model |-> NoModel, cache |-> l.cache,
          events |-> c.events \o l.events]
    ELSE [err |-> "None", model |-> [c.model EXCEPT !.params = l.params],
          cache |-> l.cache, events |-> c.events \o l.events]

\* model.load_weights(id) on the model from_config returned, or the error
\* from_config raised.
LoadPreset(c, id, cache, served) ==
    IF c.err # "None"
    THEN [err |-> c.err, model |-> NoModel, cache |-> cache,
          events |-> c.events]
    ELSE LoadedModel(c, load_weights(c.model, cache, id, served))

from_preset(id, cache, served) ==
    LoadPreset(from_config(id), id, cache, served)

----------------------------------------------------------------------------
(* BertBase: construction from a weights preset name or a vocabulary size. *)

\* An optional argument: <<>> when omitted (None), <<v>> when v is given.
Omitted == <<>>
Given(v) == <<v>>

BertBase(weights, vocabulary_size, cache, served) ==
    IF \/ weights = Omitted /\ vocabulary_size = Omitted
       \/ weights # Omitted /\ ~HasKey(backbone_configs, weights[1])
       \/ /\ weights # Omitted /\ vocabulary_size # Omitted
          /\ HasKey(backbone_configs, weights[1])
          /\ backbone_configs[weights[1]].vocabulary_size
               # vocabulary_size[1]
    THEN [err |-> "ValueError", model |-> NoModel, cache |-> cache,
          events |-> <<"validate">>]
    ELSE IF weights # Omitted
    THEN [from_preset(Str(weights[1]), cache, served) EXCEPT
            !.events = <<"validate">> \o @]
    ELSE Construct_from([backbone_configs.bert_untrained
                           EXCEPT !.vocabulary_size = vocabulary_size[1]],
                        <<"validate">>)
         @@ [cache |-> cache]

----------------------------------------------------------------------------
(* pip_build.py: the packaging script.                                     *)
(*                                                                         *)
(* The disk is a function from the directories the script touches to what  *)
(* they hold.  A function of the script is a transformer of the record s   *)
(* of the running process: its disk, its working directory, the exception  *)
(* in flight ("None": none) and its local values.  A statement reached     *)
(* with an exception in flight is skipped, as in the body of a try.        *)

hub_package == "keras_hub"
nlp_package == "keras_nlp"
build_directory == "tmp_build_dir"
dist_directory == "dist"
to_copy == <<"setup.py", "setup.cfg", "README.md">>

\* pathlib's p / q
Join(p, q) == p \o "/" \o q

\* pathlib.Path(__file__).parent.resolve(): the directory of the script.
root_path == "repo"

\* Another directory a caller can stand in.
Elsewhere == "home"

NoDir == [exists |-> FALSE, entries |-> {}]
Dir(entries) == [exists |-> TRUE, entries |-> entries]

\* The directories of the disk the model follows.
BuildDirs == {Join(d, build_directory) : d \in {root_path, Elsewhere}}
DistDirs ==
    {Join(root_path, dist_directory),
     Join(Join(root_path, nlp_package), dist_directory)}

\* keras_hub.src.version_utils.__version__, as its dot-separated parts.
version_utils_version == <<"0", "17">>

\* x in y, for strings given by their parts
IsInfix(x, y) ==
    \E i \in 0..(Len(y) - Len(x)) : SubSeq(y, i + 1, i + Len(x)) = x

\* A file of a dist directory: its name is made of the package name, the
\* version and the extension; run tells which run of the script wrote its
\* content (0: it was there before the first run).
DistFile(name, version, ext, run) ==
    [name |-> name, version |-> version, ext |-> ext, run |-> run]

SameName(f, g) ==
    f.name = g.name /\ f.version = g.version /\ f.ext = g.ext

\* The result of build_wheel: the path of a wheel, or None.
NoWheel == [exists |-> FALSE]
WheelPath(dir, file) == [exists |-> TRUE, dir |-> dir, file |-> file]

\* os.path.exists(path), path relative to the working directory
Resolve(cwd, path) == Join(cwd, path)
os_path_exists(disk, path) == path \in DOMAIN disk /\ disk[path].exists

Raise(s, e) == [s EXCEPT !.err = e]

\* The step of the script at which the environment fails, if any.
NoFault == <<"none", "none">>

\* os.mkdir(path)
os_mkdir(s, path, env) ==
    IF s.err # "None" THEN s
    ELSE IF os_path_exists(s.disk, path) THEN Raise(s, "FileExistsError")
    ELSE IF env.fault = <<"mkdir", path>> THEN Raise(s, "PermissionError")
    ELSE [s EXCEPT !.disk[path] = Dir({})]

\* from keras_hub.src.version_utils import __version__
import_version(s, env) ==
    IF s.err # "None" THEN s
    ELSE IF env.fault = <<"import", hub_package>>
    THEN Raise(s, "ImportError")
    ELSE [s EXCEPT !.version = version_utils_version]

\* shutil.copytree(root_path / package, root_path / build_directory /
\* package), then shutil.copy of each file of to_copy.  A copytree that fails
\* has created its destination; a copy fails on the first file.
copy_source_to_build_directory(s, root, package, env) ==
    IF s.err # "None" THEN s
    ELSE IF env.fault = <<"copytree", package>>
    THEN Raise([s EXCEPT !.disk[Join(root, build_directory)].entries =
                            @ \cup {package}],
               "Error")
    ELSE IF env.fault = <<"copy", package>>
    THEN Raise([s EXCEPT !.disk[Join(root, build_directory)].entries =
                            @ \cup {package}],
               "FileNotFoundError")
    ELSE [s EXCEPT !.disk[Join(root, build_directory)].entries =
                      @ \cup {package}
                        \cup {to_copy[i] : i \in 1..Len(to_copy)}]

\* package.replace("_", "-")
Hyphenated(package) ==
    IF package = hub_package THEN "keras-hub"
    ELSE IF package = nlp_package THEN "keras-nlp"
    ELSE package

\* The hour of datetime.datetime.now(), as strftime('%Y%m%d%H') prints it.
NightlyStamp == "dev2026110200"

NoSetup == [name |-> NoValue, version |-> <<>>]

\* update_version(build_path, package, __version__, is_nightly): setup.py
\* of build_path gets the package name and the version, which a nightly
\* build extends with .dev<date>.
update_version(s, build_path, package, is_nightly, env) ==
    IF s.err # "None" THEN s
    ELSE IF env.fault = <<"update_version", package>>
    THEN Raise(s, "FileNotFoundError")
    ELSE [s EXCEPT !.setup[build_path] =
            IF is_nightly
            THEN [name |-> package \o "-nightly",
                  version |-> Append(s.version, NightlyStamp)]
            ELSE [name |-> Hyphenated(package), version |-> s.version]]

\* What `python3 -m build` leaves in build_path / dist: a source archive
\* and a wheel named after setup.py, or nothing when the build fails
\* (os.system reports a failure in a return value that is not read).
Built(s, build_path, env) ==
    IF build_path \in env.fails THEN {}
    ELSE {DistFile(s.setup[build_path].name, s.setup[build_path].version,
                   ext, env.run) : ext \in {"tar.gz", "whl"}}

\* os.chdir(build_path); os.system("python3 -m build")
run_build(s, build_path, env) ==
    IF s.err # "None" THEN s
    ELSE [s EXCEPT !.cwd = build_path,
                   !.built = Built(s, build_path, env)]

\* if not os.path.exists(dist_path): os.mkdir(dist_path)
make_dist(s, dist_path, env) ==
    IF s.err # "None" \/ os_path_exists(s.disk, dist_path) THEN s
    ELSE os_mkdir(s, dist_path, env)

\* shutil.copy(fpath, dist_path) of every built file: a file of the same
\* name is overwritten.
save_dist(s, dist_path, env) ==
    IF s.err # "None" \/ s.built = {} THEN s
    ELSE IF env.fault = <<"save", dist_path>> THEN Raise(s, "OSError")
    ELSE [s EXCEPT !.disk[dist_path].entries =
            {f \in @ : \A g \in s.built : ~SameName(f, g)} \cup s.built]

\* The files of dist_path the search accepts: __version__ in fname and
\* fname.endswith(".whl").
Matching(entries, version) ==
    {f \in entries : IsInfix(version, f.version) /\ f.ext = "whl"}

\* The first matching file in the order of os.listdir, which is any order:
\* env.first tells which file the listing puts before the others, by the
\* run that wrote it.
FirstListed(matching, env) ==
    IF \E f \in matching : f.run = env.first
    THEN CHOOSE f \in matching : f.run = env.first
    ELSE CHOOSE f \in matching : TRUE

\* for fname in os.listdir(dist_path): ... return whl_path; return None
find_whl(s, dist_path, env) ==
    IF s.err # "None" THEN s
    ELSE IF Matching(s.disk[dist_path].entries, s.version) = {}
    THEN [s EXCEPT !.whl = NoWheel]
    ELSE [s EXCEPT !.whl =
            WheelPath(dist_path,
                      FirstListed(Matching(s.disk[dist_path].entries,
                                           s.version), env))]

\* build_wheel(build_path, dist_path, __version__), __version__ being the
\* version the process has imported
build_wheel(s, build_path, dist_path, env) ==
    find_whl(save_dist(make_dist(run_build(s, build_path, env),
                                 dist_path, env),
                       dist_path, env),
             dist_path, env)

\* whls.append(whl)
append_whl(s) ==
    IF s.err # "None" THEN s ELSE [s EXCEPT !.whls = Append(@, s.whl)]

\* The directories `python3 -m build` runs in.
BuildPaths ==
    {Join(root_path, build_directory),
     Join(Join(root_path, build_directory), nlp_package)}

\* A process that starts with this disk and this working directory.
Process(disk, cwd) ==
    [disk |-> disk, cwd |-> cwd, err |-> "None", version |-> <<>>,
     setup |-> [p \in BuildPaths |-> NoSetup], built |-> {},
     whl |-> NoWheel, whls |-> <<>>]

\* The body of the try up to the first whls.append(whl).
build_hub(s, root, is_nightly, env) ==
    append_whl(
      build_wheel(
        update_version(
          copy_source_to_build_directory(
            import_version(os_mkdir(s, Join(root, build_directory), env),
                           env),
            root, hub_package, env),
          Join(root, build_directory), hub_package, is_nightly, env),
        Join(root, build_directory), Join(root, dist_directory), env))

\* The body of `if keras_nlp:`.
build_nlp(s, root, is_nightly, env) ==
    append_whl(
      build_wheel(
        update_version(
          copy_source_to_build_directory(s, root, nlp_package, env),
          Join(Join(root, build_directory), nlp_package), nlp_package,
          is_nightly, env),
        Join(Join(root, build_directory), nlp_package),
        Join(Join(root, nlp_package), dist_directory), env))

\* finally: os.chdir(root_path); shutil.rmtree(root_path / build_directory).
\* rmtree of a directory that does not exist raises FileNotFoundError, which
\* replaces the exception in flight.
build_finally(s, root) ==
    [s EXCEPT !.cwd = root,
              !.disk[Join(root, build_directory)] = NoDir,
              !.err = IF os_path_exists(s.disk, Join(root, build_directory))
                      THEN @ ELSE "FileNotFoundError"]

\* build(root_path, is_nightly, keras_nlp) called by a process with this
\* disk and this working directory: the process as build leaves it, whls
\* being the list it returns when err is "None".
build(disk, cwd, root, is_nightly, keras_nlp, env) ==
    IF os_path_exists(disk, Resolve(cwd, build_directory))
    THEN Raise(Process(disk, cwd), "ValueError")
    ELSE build_finally(
           IF keras_nlp
           THEN build_nlp(build_hub(Process(disk, cwd), root, is_nightly,
                                    env),
                          root, is_nightly, env)
           ELSE build_hub(Process(disk, cwd), root, is_nightly, env),
           root)

\* os.system(f"pip3 install {path} --force-reinstall --no-dependencies") for
\* every path of whls: pip is given the paths in order; a path that names a
\* wheel file puts that file into site-packages.
install_whl(site, whls) ==
    [pip |-> whls,
     site |-> site \cup {whls[i].file : i \in {j \in 1..Len(whls) :
                                                  whls[j].exists}}]

Flags == {"--install", "--nightly", "--keras_nlp"}

\* parser.parse_args(): three store_true arguments; the default of
\* --keras_nlp is True, so it is True with and without the flag.
parse_args(argv) ==
    [install |-> "--install" \in argv,
     nightly |-> "--nightly" \in argv,
     keras_nlp |-> ("--keras_nlp" \in argv) \/ TRUE]

\* if whls and args.install: install_whl(whls), after a build that
\* returned; a build that raised ends the process.  The result: the process
\* as it ends, what pip was given, and site-packages.
main_exit(args, site, s) ==
    IF s.err = "None" /\ Len(s.whls) > 0 /\ args.install
    THEN [process |-> s] @@ install_whl(site, s.whls)
    ELSE [process |-> s, pip |-> <<>>, site |-> site]

\* whls = build(root_path, args.nightly, args.keras_nlp)
main_build(args, disk, cwd, site, env) ==
    main_exit(args, site,
              build(disk, cwd, root_path, args.nightly, args.keras_nlp,
                    env))

\* The block under `if __name__ == "__main__"`.
main(argv, disk, cwd, site, env) ==
    main_build(parse_args(argv), disk, cwd, site, env)

----------------------------------------------------------------------------
(* The state machine. *)

VARIABLES
    model,  \* the model instance the caller holds, NoModel before the first
    cache,  \* get_file's cache: the file under models/<name>/model.h5
    last,   \* the last call: what it was given, did and returned
    disk,   \* the directories the packaging script touches
    cwd,    \* the working directory the script or build is called in
    site,   \* site-packages: the wheel files pip has installed
    runs,   \* how many times the script or build has run
    run     \* the last run: how it started, ended, and what pip was given

vars == <<model, cache, last, disk, cwd, site, runs, run>>

\* The state of the packaging script.
script == <<disk, cwd, site, runs, run>>

Names ==
    {"bert_tiny", "bert_small", "bert_untrained", "bert_base_clowntown"}

\* Keyword arguments of a direct construction: (layers, heads, hidden,
\* intermediate, max length).
Configs ==
    UNION { { Config(l, 1, 2, 8, 2), Config(l, 2, 4, 6, 4) } :
            l \in 1..MaxLayers }

\* Keyword arguments without vocabulary_size.
Incomplete ==
    [num_layers |-> 1, num_heads |-> 1, hidden_dim |-> 2,
     intermediate_dim |-> 6]

Sources ==
    {Str(n) : n \in Names} \cup {Str("weights/model.h5")}
    \cup {Obj(f) : f \in Files \cup {NoFile}}

\* What a fetch of a preset's URL can bring: the published file, another
\* one, or nothing.
Served(n) ==
    (IF HasKey(Published, n) THEN {Published[n]} ELSE {})
    \cup {Tampered, FetchFail}

Batches == {<<b, s>> : b \in 1..MaxBatch, s \in 1..MaxSeqLen}

NoOutput == [sequence_output |-> NoShape, pooled_output |-> NoShape]

\* before: the parameters at the start of a load_weights call.
Outcome(op, arg, err, events, returned, before, out) ==
    [op |-> op, arg |-> arg, err |-> err, events |-> events,
     returned |-> returned, before |-> before, out |-> out]

\* The steps at which the environment can fail a run.
Faults ==
    {NoFault}
    \cup {<<"mkdir", p>> : p \in {Join(root_path, build_directory)}
                                  \cup DistDirs}
    \cup {<<"import", hub_package>>}
    \cup {<<st, pk>> : st \in {"copytree", "copy", "update_version"},
                       pk \in {hub_package, nlp_package}}
    \cup {<<"save", d>> : d \in DistDirs}

\* The environment of run n: the step that fails, the directories in which
\* `python3 -m build` fails, the order of os.listdir (the oldest or the
\* newest file first).
Envs(n) ==
    [fault : Faults, fails : SUBSET BuildPaths, first : {0, n}, run : {n}]

\* A directory somebody made under the name of the build directory.
Foreign == Dir({"notes.txt"})

\* Wheels of earlier builds: of this version, and of a later patch release.
StaleDists ==
    {NoDir,
     Dir({DistFile(Hyphenated(hub_package), version_utils_version, "whl",
                   0)}),
     Dir({DistFile(Hyphenated(hub_package),
                   Append(version_utils_version, "1"), "whl", 0)})}

IdleDisk == [p \in BuildDirs \cup DistDirs |-> NoDir]

NoRun ==
    [op |-> "start", argv |-> {}, before |-> IdleDisk, from |-> root_path,
     err |-> "None", cwd |-> root_path, whls |-> <<>>, pip |-> <<>>,
     site |-> {}]

\* before, from, site: the disk, the working directory and site-packages
\* when the run started; cwd: the working directory of the process at its
\* end.
Ran(op, argv, r) ==
    [op |-> op, argv |-> argv, before |-> disk, from |-> cwd,
     err |-> r.process.err, cwd |-> r.process.cwd,
     whls |-> r.process.whls, pip |-> r.pip, site |-> site]

ScriptIdle ==
    /\ disk = IdleDisk
    /\ cwd = root_path
    /\ site = {}
    /\ runs = 0
    /\ run = NoRun

Init ==
    /\ ScriptIdle
    /\ model = NoModel
    /\ cache = [n \in DOMAIN backbone_weight_urls |-> NoFile]
    /\ last = Outcome("start", NoValue, "None", <<>>, NoModel, <<>>,
                      NoOutput)

\* model = <constructor>(arg): the caller keeps the model the constructor
\* returned; r is what the constructor did.
Constructed(op, arg, r) ==
    /\ model' = IF r.err = "None" THEN r.model ELSE model
    /\ last' = Outcome(op, arg, r.err, r.events, r.model, <<>>, NoOutput)

\* model = Bert(**kw)
Construct ==
    \E kw \in Configs \cup {Incomplete} :
        /\ Constructed("Bert", kw, Construct_from(kw, <<>>))
        /\ UNCHANGED <<cache, script>>

\* model = Bert.from_config(x), x a preset name or a config dict
FromConfig ==
    \E x \in {Str(n) : n \in Names} \cup {Obj(c) : c \in Configs} :
        /\ Constructed("from_config", x, from_config(x))
        /\ UNCHANGED <<cache, script>>

Fetched(r) == cache' = r.cache

\* model = Bert.from_preset(name)
FromPreset ==
    \E n \in Names :
      \E served \in Served(n) :
        /\ Constructed("from_preset", Str(n),
                       from_preset(Str(n), cache, served))
        /\ Fetched(from_preset(Str(n), cache, served))
        /\ UNCHANGED script

Loaded(source, r) ==
    /\ model' = [model EXCEPT !.params = r.params]
    /\ cache' = r.cache
    /\ last' = Outcome("load_weights", source, r.err, r.events, NoModel,
                       model.params, NoOutput)

\* model.load_weights(source)
LoadWeights ==
    /\ model # NoModel
    /\ \E source \in Sources :
       \E served \in (IF source.str THEN Served(source.val)
                       ELSE {FetchFail}) :
          Loaded(source, load_weights(model, cache, source, served))
    /\ UNCHANGED script

Called(batch, r) ==
    last' = Outcome("call", batch, r.err, <<>>, NoModel, <<>>,
                    [sequence_output |-> r.sequence_output,
                     pooled_output |-> r.pooled_output])

\* model(input_batch)
Call ==
    /\ model # NoModel
    /\ \E batch \in Batches : Called(batch, CallModel(model, batch))
    /\ UNCHANGED <<model, cache, script>>

\* The reloaded model with the saved parameters restored into it.
Restored(r, params) ==
    last' = Outcome("reload", NoValue, r.err, r.events,
                    IF r.err = "None" THEN [r.model EXCEPT !.params = params]
                    ELSE NoModel,
                    <<>>, NoOutput)

\* restored = Bert.from_config(model.get_config()), then the saved
\* parameters are restored into it
SaveReload ==
    /\ model # NoModel
    /\ Restored(from_config(Obj(get_config(model))), model.params)
    /\ UNCHANGED <<model, cache, script>>

\* model = BertBase(weights=..., vocabulary_size=...)
ConstructBase ==
    \E w \in {Omitted, Given("bert_tiny"), Given("bert_base_clowntown")},
       v \in {Omitted, Given(7), Given(9)} :
      \E served \in Served(IF w = Omitted THEN NoValue ELSE w[1]) :
        /\ Constructed("BertBase", <<w, v>>, BertBase(w, v, cache, served))
        /\ Fetched(BertBase(w, v, cache, served))
        /\ UNCHANGED script

Next ==
    \/ Construct
    \/ FromConfig
    \/ FromPreset
    \/ LoadWeights
    \/ Call
    \/ SaveReload
    \/ ConstructBase

Spec == Init /\ [][Next]_vars

TypeOK ==
    /\ model = NoModel \/ model.exists
    /\ DOMAIN cache = DOMAIN backbone_weight_urls

----------------------------------------------------------------------------
(* The packaging script as a state machine: runs of the script and calls   *)
(* of build on one disk.                                                   *)

InitBuild ==
    /\ model = NoModel
    /\ cache = [n \in DOMAIN backbone_weight_urls |-> NoFile]
    /\ last = Outcome("start", NoValue, "None", <<>>, NoModel, <<>>,
                      NoOutput)
    /\ \E b \in [BuildDirs -> {NoDir, Foreign}], hub \in StaleDists :
          disk = b @@ (Join(root_path, dist_directory) :> hub)
                   @@ (Join(Join(root_path, nlp_package), dist_directory)
                         :> NoDir)
    /\ cwd \in {root_path, Elsewhere}
    /\ site = {}
    /\ runs = 0
    /\ run = NoRun

MainDone(argv, r) ==
    /\ disk' = r.process.disk
    /\ site' = r.site
    /\ run' = Ran("main", argv, r)

\* python3 pip_build.py [--install] [--nightly] [--keras_nlp], started in
\* cwd; the working directory of the caller is not the process's.
Main ==
    /\ runs < MaxRuns
    /\ \E argv \in SUBSET Flags, env \in Envs(runs + 1) :
          MainDone(argv, main(argv, disk, cwd, site, env))
    /\ runs' = runs + 1
    /\ UNCHANGED <<cwd, model, cache, last>>

BuildDone(is_nightly, keras_nlp, s) ==
    /\ disk' = s.disk
    /\ cwd' = s.cwd
    /\ run' = Ran("build",
                  {f \in Flags : \/ f = "--nightly" /\ is_nightly
                                 \/ f = "--keras_nlp" /\ keras_nlp},
                  [process |-> s, pip |-> <<>>])

\* build(root_path, is_nightly, keras_nlp) called by a process that goes on.
Build ==
    /\ runs < MaxRuns
    /\ \E is_nightly \in BOOLEAN, keras_nlp \in BOOLEAN,
          env \in Envs(runs + 1) :
          BuildDone(is_nightly, keras_nlp,
                    build(disk, cwd, root_path, is_nightly, keras_nlp, env))
    /\ runs' = runs + 1
    /\ UNCHANGED <<site, model, cache, last>>

NextBuild ==
    \/ Main
    \/ Build

SpecBuild == InitBuild /\ [][NextBuild]_vars

TypeOKBuild ==
    /\ DOMAIN disk = BuildDirs \cup DistDirs
    /\ runs \in 0..MaxRuns
    /\ cwd \in {root_path, Elsewhere}

----------------------------------------------------------------------------
(* Vocabulary of the properties. *)

Has(events, e) == \E i \in 1..Len(events) : events[i] = e

\* Every e2 in events comes after some e1.
Before(events, e1, e2) ==
    \A i \in 1..Len(events) :
        events[i] = e2 => \E j \in 1..(i - 1) : events[j] = e1

\* The source of a load is the name of a preset with registered weights.
IsPresetName(source) == source.str /\ HasKey(backbone_weight_urls, source.val)

\* The content with this identity has the hash registered for the preset.
HashRegistered(id, name) ==
    \E f \in Files : f.id = id /\ Hash(f) = backbone_weight_hashes[name]

\* The exception classes by which a bad construction argument or an
\* unregistered name is reported: the dict lookup's KeyError and the
\* validation's ValueError.
ConfigError == {"KeyError", "ValueError"}

\* The attributes of a model are the fields of this config.
BuiltFrom(m, config) ==
    /\ m # NoModel
    /\ \A k \in DOMAIN config : m[k] = config[k]

----------------------------------------------------------------------------
(* C1 *)

\* C1: a load_weights call given the name of a preset (directly, or inside
\* from_preset) compares the hash of the fetched file with the registered one
\* before it assigns any parameter; a file in the cache whose hash differs
\* has made the call fail with ValueError (the integrity error) with no
\* parameter assigned; and every parameter the call has written holds
\* content that has the registered hash.
C1_HashCheckedBeforeLoad ==
    /\ (last.op = "load_weights" /\ IsPresetName(last.arg)) =>
          /\ Before(last.events, "verify", "assign")
          /\ (cache[last.arg.val] # NoFile
               /\ Hash(cache[last.arg.val])
                    # backbone_weight_hashes[last.arg.val]) =>
                (last.err = "ValueError" /\ ~Has(last.events, "assign")
                 /\ model.params = last.before)
          /\ \A k \in 1..Len(model.params) :
                model.params[k] # last.before[k] =>
                    HashRegistered(model.params[k], last.arg.val)
    /\ (last.op = "from_preset" /\ last.returned # NoModel) =>
          /\ Before(last.events, "verify", "assign")
          /\ \A k \in 1..Len(last.returned.params) :
                HashRegistered(last.returned.params[k], last.arg.val)

\* A fetched file with the wrong hash was rejected.
C1_Witness ==
    /\ last.op = "load_weights"
    /\ last.arg = Str("bert_tiny")
    /\ cache.bert_tiny = Tampered
    /\ Has(last.events, "fetch")
    /\ last.err = "ValueError"

----------------------------------------------------------------------------
(* C2 *)

\* C2: load_weights is all-or-nothing: after a failed call every parameter
\* has the value it had before the call, after a successful one every
\* parameter holds the content of one and the same file.
C2_LoadAllOrNothing ==
    last.op = "load_weights" =>
        IF last.err # "None"
        THEN model.params = last.before
        ELSE \E f \in Files :
                \A k \in 1..Len(model.params) : model.params[k] = f.id

----------------------------------------------------------------------------
(* C3 *)

\* C3: from_preset(name) resolves the config registered for name, then
\* constructs the model, then loads the weights registered for name; the
\* model it returns is built from that config and holds those weights, and
\* a call in which a step failed returns no model.
C3_FromPresetOrder ==
    last.op = "from_preset" =>
        /\ Len(last.events) >= 1 => last.events[1] = "resolve_config"
        /\ Len(last.events) >= 2 => last.events[2] = "construct"
        /\ Len(last.events) >= 3 => last.events[3] = "resolve_weights"
        /\ Before(last.events, "resolve_weights", "assign")
        /\ last.err # "None" => last.returned = NoModel
        /\ last.err = "None" =>
              /\ BuiltFrom(last.returned, backbone_configs[last.arg.val])
              /\ Has(last.events, "assign")
              /\ \A k \in 1..Len(last.returned.params) :
                    last.returned.params[k] = Published[last.arg.val].id

\* A preset whose config resolved and whose weights could not be loaded.
C3_Witness ==
    /\ last.op = "from_preset"
    /\ Has(last.events, "construct")
    /\ last.err # "None"
    /\ last.returned = NoModel

----------------------------------------------------------------------------
(* C4 *)

----------------------------------------------------------------------------
(* C5 *)

\* C5: reloading a saved model, from_config on its get_config() and then the
\* restore of its parameters, succeeds and gives a model with the same
\* config values, the same parameters and the same outputs on every input.
C5_SaveReloadRoundTrip ==
    last.op = "reload" =>
        /\ last.err = "None"
        /\ last.returned # NoModel
        /\ \A k \in DOMAIN get_config(model) : last.returned[k] = model[k]
        /\ last.returned.params = model.params
        /\ \A batch \in Batches :
              CallModel(last.returned, batch) = CallModel(model, batch)

----------------------------------------------------------------------------
(* C6 *)

----------------------------------------------------------------------------
(* C7 *)

\* C7: a call with inputs of shape [batch, seq_len], seq_len at most
\* max_sequence_length, returns sequence_output of shape
\* [batch, seq_len, hidden_dim] and pooled_output of shape
\* [batch, hidden_dim], whatever num_layers, num_heads and intermediate_dim.
C7_OutputShapes ==
    (last.op = "call" /\ last.arg[2] <= model.max_sequence_length) =>
        /\ last.err = "None"
        /\ last.out.sequence_output
             = <<last.arg[1], last.arg[2], model.hidden_dim>>
        /\ last.out.pooled_output = <<last.arg[1], model.hidden_dim>>

\* A successful call of a model with two layers, two heads and an
\* intermediate_dim that is not its hidden_dim.
C7_Witness ==
    /\ last.op = "call"
    /\ last.err = "None"
    /\ model.num_layers = 2
    /\ model.num_heads = 2
    /\ model.intermediate_dim # model.hidden_dim
    /\ last.arg[2] > 1

----------------------------------------------------------------------------
(* C8 *)

\* C8: whatever was called before, a call with seq_len in
\* 1..max_sequence_length succeeds with outputs of the right shapes, a call
\* with a larger seq_len fails with the shape error and gives no output, and
\* no call changes the model's parameters or config.
C8_CallsIndependent ==
    [][last'.op = "call" =>
         /\ model' = model
         /\ IF last'.arg[2] <= model.max_sequence_length
            THEN /\ last'.err = "None"
                 /\ last'.out.sequence_output
                      = <<last'.arg[1], last'.arg[2], model.hidden_dim>>
                 /\ last'.out.pooled_output
                      = <<last'.arg[1], model.hidden_dim>>
            ELSE /\ last'.err = "ShapeError"
                 /\ last'.out = NoOutput]_vars

\* A call with an input longer than max_sequence_length.
C8_Witness ==
    /\ last.op = "call"
    /\ last.arg[2] > model.max_sequence_length
    /\ last.err = "ShapeError"

----------------------------------------------------------------------------
(* C9 *)

\* A source that is not a preset name: an object, or the path of a file.
Paths == {"weights/model.h5"}

IsDirect(source) == ~source.str \/ source.val \in Paths

\* C9: load_weights given a direct source resolves nothing in the registry,
\* fetches nothing, checks no hash and reads the source; it goes through the
\* registry, the cache and the hash check only for a registered preset name.
C9_DirectSourceLoadsDirectly ==
    last.op = "load_weights" =>
        /\ IsDirect(last.arg) =>
              /\ ~Has(last.events, "resolve_weights")
              /\ ~Has(last.events, "fetch")
              /\ ~Has(last.events, "verify")
              /\ Has(last.events, "open")
        /\ Has(last.events, "verify") => IsPresetName(last.arg)

----------------------------------------------------------------------------
(* C10 *)

EncoderBlocks(g) ==
    {i \in 1..Len(g.nodes) : g.nodes[i].op = "TransformerEncoder"}

\* Node i is the dropout of the layer norm of the sum of the token, position
\* and segment embeddings.
IsComposedEmbedding(g, i) ==
    LET n(j) == g.nodes[j]
    IN /\ n(i).op = "Dropout"
       /\ n(n(i).inputs[1]).op = "LayerNormalization"
       /\ LET add == n(n(n(i).inputs[1]).inputs[1])
          IN /\ add.op = "Add"
             /\ {n(add.inputs[k]).name : k \in 1..Len(add.inputs)}
                  = {"token_embedding", "position_embedding",
                     "segment_embedding"}

BlockNamed(g, k) ==
    CHOOSE i \in EncoderBlocks(g) : g.nodes[i].name = LayerName(k)

\* Block k of the graph: one layer with one set of parameters, fed by the
\* composed embedding (k = 0) or by block k-1, and by the padding_mask input.
IsStacked(g, k) ==
    /\ \E i \in EncoderBlocks(g) : g.nodes[i].name = LayerName(k)
    /\ Cardinality({i \in EncoderBlocks(g) :
                      g.nodes[i].name = LayerName(k)}) = 1
    /\ Cardinality({j \in 1..Len(WeightedLayers(g.nodes, 1)) :
                      WeightedLayers(g.nodes, 1)[j] = BlockNamed(g, k)}) = 1
    /\ Len(g.nodes[BlockNamed(g, k)].inputs) = 1
    /\ IF k = 0
       THEN IsComposedEmbedding(g, g.nodes[BlockNamed(g, k)].inputs[1])
       ELSE g.nodes[BlockNamed(g, k)].inputs[1] = BlockNamed(g, k - 1)
    /\ g.nodes[g.nodes[BlockNamed(g, k)].mask].name = "padding_mask"

Topology(g, layers) ==
    /\ Cardinality(EncoderBlocks(g)) = layers
    /\ \A k \in 0..(layers - 1) : IsStacked(g, k)
    /\ g.sequence_output = BlockNamed(g, layers - 1)
    /\ g.nodes[g.pooled_output].op = "Dense"
    /\ g.nodes[g.nodes[g.pooled_output].inputs[1]].op = "Slice"
    /\ g.nodes[g.nodes[g.pooled_output].inputs[1]].index = 0
    /\ g.nodes[g.nodes[g.pooled_output].inputs[1]].inputs
         = <<g.sequence_output>>

\* C10: the graph of a model has exactly num_layers encoder blocks, each a
\* layer of its own with its own parameters; block 0 consumes the composed
\* embedding and block i the output of block i-1; every block gets the
\* padding_mask input; sequence_output is the output of the last block and
\* pooled_output the dense layer on position 0 of that output.
C10_EncoderTopology ==
    model # NoModel => Topology(Graph(model), model.num_layers)

\* A model with more than one encoder block.
C10_Witness ==
    /\ model # NoModel
    /\ last.op = "Bert"
    /\ last.err = "None"
    /\ model = last.returned
    /\ model.num_layers >= 2

----------------------------------------------------------------------------
(* C11 *)

\* The build directory under root_path.
BuildDir == Join(root_path, build_directory)

\* C11: build() never leaves a build directory behind and never destroys
\* one that was there before.  If the build directory under root_path exists
\* when build() is called, build raises ValueError and the disk is as it
\* was; otherwise, however build ends after the existence check (it
\* returns, or a step raises), the working directory is root_path and the
\* build directory under root_path does not exist.
C11_BuildDirectoryPreserved ==
    run.op \in {"main", "build"} =>
        IF run.before[BuildDir].exists
        THEN run.err = "ValueError" /\ disk = run.before
        ELSE run.err # "ValueError" =>
                (run.cwd = root_path /\ ~disk[BuildDir].exists)

----------------------------------------------------------------------------
(* C12 *)

\* The wheel files this run has built and saved.
BuiltWheels ==
    UNION {{f \in disk[d].entries : f.ext = "whl" /\ f.run = runs} :
           d \in DistDirs}

\* C12: pip is run only if --install was given; install_whl is never given
\* the None that build_wheel returns after "Build failed."; every wheel
\* given to pip is one this run has built; and a run that has built no
\* wheel gives nothing to pip and leaves site-packages as it was.
C12_InstallOnlyBuiltWheels ==
    run.op = "main" =>
        /\ run.pip # <<>> => "--install" \in run.argv
        /\ \A i \in 1..Len(run.pip) : run.pip[i] # NoWheel
        /\ \A i \in 1..Len(run.pip) :
              run.pip[i].exists => run.pip[i].file \in BuiltWheels
        /\ BuiltWheels = {} => (run.pip = <<>> /\ site = run.site)

====
